---- MODULE Spec2Model ----
(***************************************************************************)
(* Model of the generic data-access layer of package db (src/db/utils.go). *)
(*                                                                         *)
(* One caller runs the facade operations against a single table of a      *)
(* relational store.  The builders render SQL as a sequence of text        *)
(* tokens; the store parses the tokens back and executes the statement,   *)
(* so a statement the builders render wrongly is rejected or misread by    *)
(* the store.  Other callers of the same pool appear as ConcurrentWrite:   *)
(* every write they can issue is a single statement and so atomic at the   *)
(* store.                                                                  *)
(***************************************************************************)
EXTENDS Integers, Sequences, FiniteSets, TLC

\* ------------------------------------------------------------------ bounds

\* Identities the store's auto-increment hands out (so also the most rows).
MaxId == 2
\* Longest payload sequence given to BulkInsert.
MaxPayloads == 2
\* Most joins a caller adds to a JoinBuilder.
MaxJoins == 1

\* ------------------------------------------------------------ Go values

\* A Go pointer: nil, or the address of one value.
Nil == <<>>
Ptr(x) == <<x>>
Deref(p) == p[1]

\* An error is the chain of its messages, outermost first; nil is empty.
\* fmt.Errorf("msg: %w", err) puts one message in front of the chain.
NoError == <<>>
Errorf(msg, err) == <<msg>> \o err
ErrNoRows == <<"sql: no rows in result set">>
ErrDriver == <<"driver: statement failed">>
ErrScan == <<"sql: Scan error">>
ErrIter == <<"driver: rows iteration failed">>
ErrTxBegin == <<"driver: begin failed">>
ErrCommit == <<"driver: commit failed">>
ErrNoLastId == <<"driver: LastInsertId is not supported">>

Min(a, b) == IF a < b THEN a ELSE b
Max(a, b) == IF a > b THEN a ELSE b

\* fmt.Sprintf("%d", n) and the store's reading of a number token.
Digits == <<"0", "1", "2", "3", "4", "5", "6", "7", "8", "9">>
Itoa(n) == Digits[n + 1]
IsNumber(s) == \E n \in 1..Len(Digits) : Digits[n] = s
Atoi(s) == (CHOOSE n \in 1..Len(Digits) : Digits[n] = s) - 1

\* ------------------------------------------------------------ the table

TableName == "items"
Columns == {"id", "name", "qty", "note", "createdAt"}
NULL == "NULL"
Now == "now"

\* A row as the store keeps it.
NewRow(id) == [id |-> id, name |-> "", qty |-> 0, note |-> NULL, createdAt |-> Now]

\* database/sql's argument conversion: a nil pointer is sent as NULL, any
\* other pointer as the value it points to.  Only note is bound to a pointer.
ToColumn(col, v) == IF col = "note" THEN (IF v = Nil THEN NULL ELSE Deref(v)) ELSE v
\* Scan into a *string field: NULL becomes nil.
FromColumn(col, v) == IF col = "note" THEN (IF v = NULL THEN Nil ELSE Ptr(v)) ELSE v

\* T, the record type rows are scanned into: one field per column, in
\* SELECT * order.
ScanItem(row) ==
  [id |-> row.id, name |-> row.name, qty |-> row.qty,
   note |-> FromColumn("note", row.note), createdAt |-> row.createdAt]

ScanItems(rows) == [k \in 1..Len(rows) |-> ScanItem(rows[k])]

\* ------------------------------------------------------ QueryOptions

QueryOptions(where, whereArgs, orderBy, limit, offset) ==
  [Where |-> where, WhereArgs |-> whereArgs, OrderBy |-> orderBy,
   Limit |-> limit, Offset |-> offset]

\* &QueryOptions{}
ZeroOptions == QueryOptions("", <<>>, "", 0, 0)

\* buildWhereClause: options is a pointer (Nil or Ptr(record)).
buildWhereClause(options) ==
  IF options = Nil \/ Deref(options).Where = ""
  THEN [clause |-> <<>>, args |-> <<>>]
  ELSE [clause |-> <<" WHERE ", Deref(options).Where>>,
        args |-> Deref(options).WhereArgs]

\* Mutant of buildSelectQuery: the LIMIT clause is not rendered.
buildSelectQueryNoLimit(tableName, options, whereClause) ==
  <<"SELECT * FROM ", tableName>> \o whereClause
  \o (IF options # Nil /\ Deref(options).OrderBy # ""
      THEN <<" ORDER BY ", Deref(options).OrderBy>> ELSE <<>>)
  \o (IF options # Nil /\ Deref(options).Offset > 0
      THEN <<" OFFSET ", Itoa(Deref(options).Offset)>> ELSE <<>>)

buildSelectQuery(tableName, options, whereClause) ==
  LET base == <<"SELECT * FROM ", tableName>> \o whereClause
      order == IF options # Nil /\ Deref(options).OrderBy # ""
               THEN <<" ORDER BY ", Deref(options).OrderBy>> ELSE <<>>
      limit == IF options # Nil /\ Deref(options).Limit > 0
               THEN <<" LIMIT ", Itoa(Deref(options).Limit)>> ELSE <<>>
      offset == IF options # Nil /\ Deref(options).Offset > 0
                THEN <<" OFFSET ", Itoa(Deref(options).Offset)>> ELSE <<>>
  IN base \o order \o limit \o offset

buildCountQuery(tableName, whereClause) ==
  <<"SELECT COUNT(*) FROM ", tableName>> \o whereClause

\* ------------------------------------------------ QueryOptionsWithJoins

InnerJoin == "INNER JOIN"
LeftJoin == "LEFT JOIN"
RightJoin == "RIGHT JOIN"
FullJoin == "FULL OUTER JOIN"

JoinClause(type, tbl, condition) == [Type |-> type, Table |-> tbl, Condition |-> condition]
NewInnerJoin(tbl, condition) == JoinClause(InnerJoin, tbl, condition)
NewLeftJoin(tbl, condition) == JoinClause(LeftJoin, tbl, condition)
NewRightJoin(tbl, condition) == JoinClause(RightJoin, tbl, condition)
NewFullJoin(tbl, condition) == JoinClause(FullJoin, tbl, condition)

QueryOptionsWithJoins(joins, where, whereArgs, orderBy, limit, offset, select) ==
  [Joins |-> joins, Where |-> where, WhereArgs |-> whereArgs, OrderBy |-> orderBy,
   Limit |-> limit, Offset |-> offset, Select |-> select]

\* &QueryOptionsWithJoins{}
ZeroJoinOptions == QueryOptionsWithJoins(<<>>, "", <<>>, "", 0, 0, "")

\* for _, join := range options.Joins { query += " <Type> <Table> ON <Condition>" }
\* Six tokens a join: " ", Type, " ", Table, " ON ", Condition.
JoinFragments(joins) ==
  [i \in 1..(6 * Len(joins)) |->
     CASE (i - 1) % 6 = 0 -> " "
       [] (i - 1) % 6 = 1 -> joins[((i - 1) \div 6) + 1].Type
       [] (i - 1) % 6 = 2 -> " "
       [] (i - 1) % 6 = 3 -> joins[((i - 1) \div 6) + 1].Table
       [] (i - 1) % 6 = 4 -> " ON "
       [] OTHER -> joins[((i - 1) \div 6) + 1].Condition]

\* Mutant of buildJoinQuery: OFFSET is rendered before LIMIT.
buildJoinQueryOffsetFirst(tableName, options) ==
  <<"SELECT ", IF options # Nil /\ Deref(options).Select # "" THEN Deref(options).Select ELSE "*",
    " FROM ", tableName>>
  \o (IF options # Nil THEN JoinFragments(Deref(options).Joins) ELSE <<>>)
  \o (IF options # Nil /\ Deref(options).Where # ""
      THEN <<" WHERE ", Deref(options).Where>> ELSE <<>>)
  \o (IF options # Nil /\ Deref(options).OrderBy # ""
      THEN <<" ORDER BY ", Deref(options).OrderBy>> ELSE <<>>)
  \o (IF options # Nil /\ Deref(options).Offset > 0
      THEN <<" OFFSET ", Itoa(Deref(options).Offset)>> ELSE <<>>)
  \o (IF options # Nil /\ Deref(options).Limit > 0
      THEN <<" LIMIT ", Itoa(Deref(options).Limit)>> ELSE <<>>)

buildJoinQuery(tableName, options) ==
  <<"SELECT ", IF options # Nil /\ Deref(options).Select # "" THEN Deref(options).Select ELSE "*",
    " FROM ", tableName>>
  \o (IF options # Nil /\ Len(Deref(options).Joins) > 0
      THEN JoinFragments(Deref(options).Joins) ELSE <<>>)
  \o (IF options # Nil /\ Deref(options).Where # ""
      THEN <<" WHERE ", Deref(options).Where>> ELSE <<>>)
  \o (IF options # Nil /\ Deref(options).OrderBy # ""
      THEN <<" ORDER BY ", Deref(options).OrderBy>> ELSE <<>>)
  \o (IF options # Nil /\ Deref(options).Limit > 0
      THEN <<" LIMIT ", Itoa(Deref(options).Limit)>> ELSE <<>>)
  \o (IF options # Nil /\ Deref(options).Offset > 0
      THEN <<" OFFSET ", Itoa(Deref(options).Offset)>> ELSE <<>>)

buildCountQueryWithJoins(tableName, options) ==
  <<"SELECT COUNT(*) FROM ", tableName>>
  \o (IF options # Nil /\ Len(Deref(options).Joins) > 0
      THEN JoinFragments(Deref(options).Joins) ELSE <<>>)
  \o (IF options # Nil /\ Deref(options).Where # ""
      THEN <<" WHERE ", Deref(options).Where>> ELSE <<>>)

\* args := []interface{}{}; if options != nil && options.WhereArgs != nil { args = options.WhereArgs }
JoinArgs(options) == IF options # Nil THEN Deref(options).WhereArgs ELSE <<>>

\* ----------------------------------------------------------- JoinBuilder

\* A JoinBuilder: the table name and the pointer to its options, which the
\* builder alone holds and hands out.
NewJoinBuilder(tableName) == [tableName |-> tableName, options |-> Ptr(ZeroJoinOptions)]

\* jb.options.<field> = value
SetOption(jb, field, value) ==
  [jb EXCEPT !.options = Ptr([Deref(jb.options) EXCEPT ![field] = value])]

\* jb.options.Joins = append(jb.options.Joins, join)
AddJoin(jb, join) == SetOption(jb, "Joins", Append(Deref(jb.options).Joins, join))

Build(jb) == jb.options
GetQuery(jb) == buildJoinQuery(jb.tableName, jb.options)
GetTableName(jb) == jb.tableName
GetOptions(jb) == jb.options

\* ------------------------------------------------------------ the store

\* The predicates and orderings the store is asked to evaluate here.
Predicates == {"qty = ?", "id = ?"}
Orderings == {"id DESC"}

Eval(row, where, args) ==
  CASE where = "qty = ?" -> row.qty = args[1]
    [] where = "id = ?" -> row.id = args[1]
    [] OTHER -> TRUE

Filter(rows, where, args) == SelectSeq(rows, LAMBDA r : Eval(r, where, args))
Reject(rows, where, args) == SelectSeq(rows, LAMBDA r : ~Eval(r, where, args))

\* ORDER BY id DESC, id being unique: the k-th row is the one with k - 1
\* rows of a greater id.
SortIdDesc(rows) ==
  [k \in 1..Len(rows) |->
     rows[CHOOSE i \in 1..Len(rows) :
            Cardinality({j \in 1..Len(rows) : rows[j].id > rows[i].id}) = k - 1]]

Order(rows, orderBy) == IF orderBy = "id DESC" THEN SortIdDesc(rows) ELSE rows
Skip(rows, n) == SubSeq(rows, n + 1, Len(rows))
Take(rows, n) == SubSeq(rows, 1, Min(n, Len(rows)))

\* The optional clauses of a statement are "<keyword> <operand>" pairs, to be
\* given in the grammar's order.
Keywords == <<" WHERE ", " ORDER BY ", " LIMIT ", " OFFSET ">>
Rank(kw) ==
  IF \E i \in 1..Len(Keywords) : Keywords[i] = kw
  THEN CHOOSE i \in 1..Len(Keywords) : Keywords[i] = kw ELSE 0

\* t is a well-formed clause list using only the keywords of rank <= most.
ClausesOK(t, most) ==
  /\ Len(t) % 2 = 0
  /\ \A k \in 1..(Len(t) \div 2) : Rank(t[2 * k - 1]) \in 1..most
  /\ \A k, m \in 1..(Len(t) \div 2) : k < m => Rank(t[2 * k - 1]) < Rank(t[2 * m - 1])

Has(t, kw) == \E k \in 1..(Len(t) \div 2) : t[2 * k - 1] = kw
Get(t, kw) == IF Has(t, kw) THEN t[2 * (CHOOSE k \in 1..(Len(t) \div 2) : t[2 * k - 1] = kw)] ELSE ""

\* A WHERE clause is well formed when the store knows the predicate and the
\* statement binds exactly its one placeholder.
WhereOK(t, args) ==
  IF Has(t, " WHERE ") THEN Get(t, " WHERE ") \in Predicates /\ Len(args) = 1
  ELSE Len(args) = 0

\* SELECT * FROM <table>[ WHERE <p>][ ORDER BY <o>][ LIMIT <n>][ OFFSET <n>]
SelectOK(q, args) ==
  /\ Len(q) >= 2 /\ q[1] = "SELECT * FROM " /\ q[2] = TableName
  /\ ClausesOK(SubSeq(q, 3, Len(q)), 4)
  /\ WhereOK(SubSeq(q, 3, Len(q)), args)
  /\ (Has(SubSeq(q, 3, Len(q)), " ORDER BY ") => Get(SubSeq(q, 3, Len(q)), " ORDER BY ") \in Orderings)
  /\ (Has(SubSeq(q, 3, Len(q)), " LIMIT ") => IsNumber(Get(SubSeq(q, 3, Len(q)), " LIMIT ")))
  /\ (Has(SubSeq(q, 3, Len(q)), " OFFSET ") => IsNumber(Get(SubSeq(q, 3, Len(q)), " OFFSET ")))

\* The rows a well-formed SELECT with clause list t yields over tbl.
Limited(rows, t) ==
  IF Has(t, " LIMIT ") THEN Take(rows, Atoi(Get(t, " LIMIT "))) ELSE rows
Offsetted(rows, t) ==
  IF Has(t, " OFFSET ") THEN Skip(rows, Atoi(Get(t, " OFFSET "))) ELSE rows
SelectRows(t, args, tbl) ==
  Limited(Offsetted(Order(Filter(tbl, Get(t, " WHERE "), args), Get(t, " ORDER BY ")), t), t)

\* SELECT COUNT(*) FROM <table>[ WHERE <p>]
CountOK(q, args) ==
  /\ Len(q) >= 2 /\ q[1] = "SELECT COUNT(*) FROM " /\ q[2] = TableName
  /\ ClausesOK(SubSeq(q, 3, Len(q)), 1)
  /\ WhereOK(SubSeq(q, 3, Len(q)), args)

\* db.Query of a SELECT.  fault is the store's own failure (connectivity).
StoreSelect(q, args, tbl, fault) ==
  IF fault \/ ~SelectOK(q, args) THEN [err |-> ErrDriver, rows |-> <<>>]
  ELSE [err |-> NoError, rows |-> SelectRows(SubSeq(q, 3, Len(q)), args, tbl)]

\* db.QueryRow(...).Scan(&n) of a COUNT.
StoreCount(q, args, tbl, fault) ==
  IF fault \/ ~CountOK(q, args) THEN [err |-> ErrDriver, n |-> 0]
  ELSE [err |-> NoError, n |-> Len(Filter(tbl, Get(SubSeq(q, 3, Len(q)), " WHERE "), args))]

\* ------------------------------------------------------------- scanning

\* What reading a cursor of n rows can do: every row scans; the scan of a
\* row fails (a mapping error: the first row's, rows being of one shape); or
\* iteration stops with an error after k rows.  A query that failed opened
\* no cursor, so the operations pair a fault with the one outcome "ok".
ScanOutcomes(n) ==
  {[kind |-> "ok", at |-> 0]}
  \cup {[kind |-> "scan", at |-> k] : k \in 1..Min(n, 1)}
  \cup {[kind |-> "iter", at |-> k] : k \in 0..n}

\* scanRows: a scan error returns nil; rows.Err() is returned beside the
\* results gathered so far.
scanRows(rows, outcome) ==
  CASE outcome.kind = "scan" -> [data |-> <<>>, err |-> ErrScan]
    [] outcome.kind = "iter" ->
         [data |-> ScanItems(Take(rows, outcome.at)), err |-> ErrIter]
    [] OTHER -> [data |-> ScanItems(rows), err |-> NoError]

\* ------------------------------------------------------------ the state

VARIABLES
  table,     \* the store's rows, in store order
  nextId,    \* the store's auto-increment
  pc,        \* where the caller is: "idle", inside an operation, "done"
  op,        \* the operation the caller runs
  options,   \* the caller-owned *QueryOptions it passed
  payloads,  \* the payloads it passed
  idx,       \* BulkInsert's loop index
  count,     \* FindAllAndCount's result.Count between its round trips
  tx,        \* BulkInsert's transaction
  cursor,    \* the multi-row cursor of the operation
  ret,       \* what the operation returned
  stmts,     \* the statements the operation sent, in order
  hist,      \* history: what the operation was given and what the store did
  builder    \* the caller's JoinBuilder, kept from one call to the next

vars ==
  <<table, nextId, pc, op, options, payloads, idx, count, tx, cursor, ret, stmts, hist,
    builder>>

\* A return value: every operation returns (value, error).
Ret(kind, ok, data, n, err) ==
  [kind |-> kind, ok |-> ok, data |-> data, n |-> n, err |-> err]
NoRet == Ret("none", FALSE, <<>>, 0, NoError)

NoTx == [state |-> "none", rows |-> <<>>, ids |-> {}]
NoHist == [options0 |-> Nil, before |-> <<>>, wrote |-> FALSE, fault |-> FALSE,
           scan |-> [kind |-> "ok", at |-> 0], result |-> <<>>]

Stmt(q, args) == [q |-> q, args |-> args]

\* ------------------------------------------------------------- inputs

WhereChoices ==
  {[w |-> "", a |-> <<>>]} \cup {[w |-> "qty = ?", a |-> <<v>>] : v \in {0, 1}}

OptionValues ==
  {QueryOptions(c.w, c.a, o, l, f) :
     c \in WhereChoices, o \in {"", "id DESC"}, l \in {0, 1, 2}, f \in {0, 1, 2}}

\* The *QueryOptions a caller passes: nil or a pointer to its own value.
OptionArgs == {Nil} \cup {Ptr(o) : o \in OptionValues}

Init ==
  /\ table = <<>>
  /\ nextId = 1
  /\ pc = "idle"
  /\ op = "none"
  /\ options = Nil
  /\ payloads = <<>>
  /\ idx = 0
  /\ count = 0
  /\ tx = NoTx
  /\ cursor = "none"
  /\ ret = NoRet
  /\ stmts = <<>>
  /\ hist = NoHist
  /\ builder = NewJoinBuilder(TableName)

\* ------------------------------------------------- payloads and reflection

\* The payload type's fields in declaration order, as reflection sees them:
\* the db tag is its text split at the commas, kept with the commas.
\*   ID int `db:"id"`; Name string `db:"name"`; Qty int `db:"qty"`;
\*   Note *string `db:"note,omitempty"`; Secret string `db:"-"`;
\*   Extra string; hidden string `db:"hidden"`; CreatedAt time.Time `db:"createdAt"`
Field(name, exported, tag, kind) ==
  [name |-> name, exported |-> exported, tag |-> tag, kind |-> kind]

PayloadFields ==
  << Field("ID", TRUE, <<"id">>, "int"),
     Field("Name", TRUE, <<"name">>, "string"),
     Field("Qty", TRUE, <<"qty">>, "int"),
     Field("Note", TRUE, <<"note", ",", "omitempty">>, "ptr"),
     Field("Secret", TRUE, <<"-">>, "string"),
     Field("Extra", TRUE, <<>>, "string"),
     Field("hidden", FALSE, <<"hidden">>, "string"),
     Field("CreatedAt", TRUE, <<"createdAt">>, "time") >>

\* A payload value: one value per field.
Payload(name, qty, note) == <<0, name, qty, note, "s", "x", "h", "zero">>

\* A second payload type, for partial updates, with no field that is always
\* written:  ID int `db:"id"`; Name string `db:"name"`; Note *string `db:"note"`
PatchFields ==
  << Field("ID", TRUE, <<"id">>, "int"),
     Field("Name", TRUE, <<"name">>, "string"),
     Field("Note", TRUE, <<"note">>, "ptr") >>

Patch(name, note) == <<0, name, note>>

\* reflect.TypeOf(payload): the fields of the payload's type.
TypeOf(payload) == IF Len(payload) = Len(PatchFields) THEN PatchFields ELSE PayloadFields

\* strings.Split(dbTag, ",")[0]
FirstPart(tag) == IF tag = <<>> \/ Head(tag) = "," THEN "" ELSE Head(tag)

\* Mutant of Skipped: the reserved columns id and createdAt are not skipped.
SkippedButReserved(field) ==
  \/ ~field.exported
  \/ field.tag = <<>> \/ field.tag = <<"-">>
  \/ FirstPart(field.tag) = ""

\* The checks buildInsertData and buildSetClause share (CanInterface, the
\* tag, the column name, the reserved columns).
Skipped(field) ==
  \/ ~field.exported
  \/ field.tag = <<>> \/ field.tag = <<"-">>
  \/ FirstPart(field.tag) = ""
  \/ FirstPart(field.tag) = "id" \/ FirstPart(field.tag) = "createdAt"

\* strings.Join(parts, sep), each part a token sequence.
RECURSIVE Join(_, _)
Join(parts, sep) ==
  IF parts = <<>> THEN <<>>
  ELSE IF Len(parts) = 1 THEN Head(parts)
  ELSE Head(parts) \o <<sep>> \o Join(Tail(parts), sep)

RECURSIVE InsertLoop(_, _, _, _, _)
InsertLoop(payload, i, columns, placeholders, values) ==
  IF i > Len(TypeOf(payload)) THEN [columns |-> columns, placeholders |-> placeholders, values |-> values]
  ELSE IF Skipped(TypeOf(payload)[i]) THEN InsertLoop(payload, i + 1, columns, placeholders, values)
  ELSE InsertLoop(payload, i + 1,
                  Append(columns, <<FirstPart(TypeOf(payload)[i].tag)>>),
                  Append(placeholders, <<"?">>),
                  Append(values, payload[i]))

buildInsertData(payload) == InsertLoop(payload, 1, <<>>, <<>>, <<>>)

\* fmt.Sprintf("INSERT INTO %s (%s) VALUES (%s)", ...)
InsertQuery(tableName, d) ==
  <<"INSERT INTO ", tableName, " (">> \o Join(d.columns, ", ")
  \o <<") VALUES (">> \o Join(d.placeholders, ", ") \o <<")">>

\* Mutant of SkipOnEmpty: a zero integer is skipped like an empty string.
SkipOnEmptyOrZero(field, value) ==
  \/ field.kind = "ptr" /\ value = Nil
  \/ field.kind = "string" /\ value = ""
  \/ field.kind = "int" /\ value = 0

\* buildSetClause's own skips: a nil pointer, an empty string.
SkipOnEmpty(field, value) ==
  \/ field.kind = "ptr" /\ value = Nil
  \/ field.kind = "string" /\ value = ""

RECURSIVE SetLoop(_, _, _, _)
SetLoop(payload, i, setParts, values) ==
  IF i > Len(TypeOf(payload)) THEN [clause |-> Join(setParts, ", "), args |-> values]
  ELSE IF Skipped(TypeOf(payload)[i]) THEN SetLoop(payload, i + 1, setParts, values)
  ELSE IF SkipOnEmpty(TypeOf(payload)[i], payload[i]) THEN SetLoop(payload, i + 1, setParts, values)
  ELSE SetLoop(payload, i + 1,
               Append(setParts, <<FirstPart(TypeOf(payload)[i].tag), " = ?">>),
               Append(values, payload[i]))

buildSetClause(payload) == SetLoop(payload, 1, <<>>, <<>>)

\* ------------------------------------------------- the store's writes

\* Where the token tok first stands in q (0 when it does not).
IndexOf(q, tok) ==
  IF \E i \in 1..Len(q) : q[i] = tok
  THEN CHOOSE i \in 1..Len(q) : q[i] = tok /\ \A j \in 1..(i - 1) : q[j] # tok
  ELSE 0

\* t is a list "x, y, z": items at the odd places, ", " between them.
ListOK(t) ==
  /\ Len(t) % 2 = 1
  /\ \A i \in 1..Len(t) : (i % 2 = 0) <=> (t[i] = ", ")
Items(t) == [k \in 1..((Len(t) + 1) \div 2) |-> t[2 * k - 1]]

Distinct(s) == \A k, m \in 1..Len(s) : s[k] = s[m] => k = m

\* INSERT INTO <table> (<columns>) VALUES (<placeholders>)
InsertColumns(q) == Items(SubSeq(q, 4, IndexOf(q, ") VALUES (") - 1))
InsertPlaceholders(q) == Items(SubSeq(q, IndexOf(q, ") VALUES (") + 1, Len(q) - 1))
InsertOK(q, args) ==
  /\ Len(q) >= 3 /\ q[1] = "INSERT INTO " /\ q[2] = TableName /\ q[3] = " ("
  /\ IndexOf(q, ") VALUES (") > 4 /\ q[Len(q)] = ")"
  /\ ListOK(SubSeq(q, 4, IndexOf(q, ") VALUES (") - 1))
  /\ ListOK(SubSeq(q, IndexOf(q, ") VALUES (") + 1, Len(q) - 1))
  /\ Len(InsertColumns(q)) = Len(InsertPlaceholders(q))
  /\ Len(args) = Len(InsertPlaceholders(q))
  /\ \A k \in 1..Len(InsertColumns(q)) : InsertColumns(q)[k] \in Columns
  /\ \A k \in 1..Len(InsertPlaceholders(q)) : InsertPlaceholders(q)[k] = "?"
  /\ Distinct(InsertColumns(q))

\* row with every column of columns set to the argument at its place.
Assign(row, columns, args) ==
  [c \in DOMAIN row |->
     IF \E k \in 1..Len(columns) : columns[k] = c
     THEN ToColumn(c, args[CHOOSE k \in 1..Len(columns) : columns[k] = c])
     ELSE row[c]]

\* UPDATE <table> SET <col> = ?[, <col> = ?]*[ WHERE <p>] RETURNING *
\* The SET list ends where the WHERE clause or RETURNING begins.
SetEnd(q) == IF IndexOf(q, " WHERE ") > 0 THEN IndexOf(q, " WHERE ") - 1 ELSE Len(q) - 1
SetTokens(q) == SubSeq(q, 4, SetEnd(q))
\* "<col> = ?" triples: column, " = ?", and ", " between two assignments.
SetOK(t) ==
  /\ Len(t) % 3 = 2
  /\ \A i \in 1..Len(t) : /\ (i % 3 = 2) <=> (t[i] = " = ?")
                          /\ (i % 3 = 0) <=> (t[i] = ", ")
SetColumns(t) == [k \in 1..((Len(t) + 1) \div 3) |-> t[3 * k - 2]]

UpdateOK(q, args) ==
  /\ Len(q) >= 4 /\ q[1] = "UPDATE " /\ q[2] = TableName /\ q[3] = " SET "
  /\ q[Len(q)] = " RETURNING *"
  /\ SetOK(SetTokens(q))
  /\ ClausesOK(SubSeq(q, SetEnd(q) + 1, Len(q) - 1), 1)
  /\ Len(args) >= Len(SetColumns(SetTokens(q)))
  /\ WhereOK(SubSeq(q, SetEnd(q) + 1, Len(q) - 1),
             SubSeq(args, Len(SetColumns(SetTokens(q))) + 1, Len(args)))
  /\ \A k \in 1..Len(SetColumns(SetTokens(q))) : SetColumns(SetTokens(q))[k] \in Columns
  /\ Distinct(SetColumns(SetTokens(q)))

\* DELETE FROM <table>[ WHERE <p>] RETURNING *
DeleteOK(q, args) ==
  /\ Len(q) >= 3 /\ q[1] = "DELETE FROM " /\ q[2] = TableName
  /\ q[Len(q)] = " RETURNING *"
  /\ ClausesOK(SubSeq(q, 3, Len(q) - 1), 1)
  /\ WhereOK(SubSeq(q, 3, Len(q) - 1), args)

\* Every row matching the predicate takes the assignments.
UpdateRows(rows, where, whereArgs, columns, setArgs) ==
  [k \in 1..Len(rows) |->
     IF Eval(rows[k], where, whereArgs) THEN Assign(rows[k], columns, setArgs) ELSE rows[k]]

\* Exec of an INSERT: the row takes the next identity.  The store fails the
\* statement when it is out of identities (the model's bound), as it may fail
\* any statement; a failed insert consumes no identity.
StoreInsert(q, args, id, fault) ==
  IF fault \/ ~InsertOK(q, args) \/ id > MaxId THEN [err |-> ErrDriver, row |-> NewRow(0)]
  ELSE [err |-> NoError, row |-> Assign(NewRow(id), InsertColumns(q), args)]

\* db.Query of an UPDATE ... RETURNING *: the new table and the updated rows.
UpdateAnswer(tbl, where, whereArgs, columns, setArgs) ==
  [err |-> NoError,
   table |-> UpdateRows(tbl, where, whereArgs, columns, setArgs),
   rows |-> UpdateRows(Filter(tbl, where, whereArgs), "", <<>>, columns, setArgs)]

StoreUpdate(q, args, tbl, fault) ==
  IF fault \/ ~UpdateOK(q, args) THEN [err |-> ErrDriver, table |-> tbl, rows |-> <<>>]
  ELSE UpdateAnswer(tbl, Get(SubSeq(q, SetEnd(q) + 1, Len(q) - 1), " WHERE "),
                    SubSeq(args, Len(SetColumns(SetTokens(q))) + 1, Len(args)),
                    SetColumns(SetTokens(q)),
                    SubSeq(args, 1, Len(SetColumns(SetTokens(q)))))

\* db.Query of a DELETE ... RETURNING *: the new table and the deleted rows.
StoreDelete(q, args, tbl, fault) ==
  IF fault \/ ~DeleteOK(q, args) THEN [err |-> ErrDriver, table |-> tbl, rows |-> <<>>]
  ELSE [err |-> NoError,
        table |-> Reject(tbl, Get(SubSeq(q, 3, Len(q) - 1), " WHERE "), args),
        rows |-> Filter(tbl, Get(SubSeq(q, 3, Len(q) - 1), " WHERE "), args)]

\* ------------------------------------------------- the store's joins

\* The tables the store can join to the base table, and on what.  Each has
\* exactly one row for every row of the base table, so a join of any type
\* yields the base table's rows, one for one.
JoinTypes == {InnerJoin, LeftJoin, RightJoin, FullJoin}
JoinTables == {"tags", "owners"}
JoinConditions == {"tags.item = items.id", "owners.item = items.id"}
Projections == {"*", "items.*"}

\* Whether the six tokens of q from place i are a join the store knows.
JoinOK(q, i) ==
  /\ i + 5 <= Len(q)
  /\ q[i] = " " /\ q[i + 1] \in JoinTypes /\ q[i + 2] = " "
  /\ q[i + 3] \in JoinTables /\ q[i + 4] = " ON " /\ q[i + 5] \in JoinConditions

\* How many joins follow the base table, which ends at place from - 1.
JoinCount(q, from) ==
  Cardinality({k \in 1..(Len(q) \div 6) : \A m \in 1..k : JoinOK(q, from + 6 * (m - 1))})

\* The tables joined, in order: no table twice.
JoinedTables(q, from) == [k \in 1..JoinCount(q, from) |-> q[from + 6 * (k - 1) + 3]]

\* SELECT <projection> FROM <table>[ <join>]*[ WHERE <p>][ ORDER BY <o>][ LIMIT <n>][ OFFSET <n>]
\* rest: the clauses after the joins.
JoinSelectOK(q, args, rest) ==
  /\ Len(q) >= 4 /\ q[1] = "SELECT " /\ q[2] \in Projections
  /\ q[3] = " FROM " /\ q[4] = TableName
  /\ Distinct(JoinedTables(q, 5))
  /\ ClausesOK(rest, 4)
  /\ WhereOK(rest, args)
  /\ (Has(rest, " ORDER BY ") => Get(rest, " ORDER BY ") \in Orderings)
  /\ (Has(rest, " LIMIT ") => IsNumber(Get(rest, " LIMIT ")))
  /\ (Has(rest, " OFFSET ") => IsNumber(Get(rest, " OFFSET ")))

\* SELECT COUNT(*) FROM <table>[ <join>]*[ WHERE <p>]
JoinCountOK(q, args, rest) ==
  /\ Len(q) >= 2 /\ q[1] = "SELECT COUNT(*) FROM " /\ q[2] = TableName
  /\ Distinct(JoinedTables(q, 3))
  /\ ClausesOK(rest, 1)
  /\ WhereOK(rest, args)

\* db.Query of a SELECT with joins.
StoreJoinSelect(q, args, tbl, fault) ==
  IF fault \/ ~JoinSelectOK(q, args, SubSeq(q, 5 + 6 * JoinCount(q, 5), Len(q)))
  THEN [err |-> ErrDriver, rows |-> <<>>]
  ELSE [err |-> NoError,
        rows |-> SelectRows(SubSeq(q, 5 + 6 * JoinCount(q, 5), Len(q)), args, tbl)]

\* db.QueryRow(...).Scan(&n) of a COUNT with joins.
StoreJoinCount(q, args, tbl, fault) ==
  IF fault \/ ~JoinCountOK(q, args, SubSeq(q, 3 + 6 * JoinCount(q, 3), Len(q)))
  THEN [err |-> ErrDriver, n |-> 0]
  ELSE [err |-> NoError,
        n |-> Len(Filter(tbl, Get(SubSeq(q, 3 + 6 * JoinCount(q, 3), Len(q)), " WHERE "), args))]

\* ------------------------------------------------------------- inputs (2)

InsertPayloads == {Payload("a", q, Nil) : q \in {0, 1}}

\* Update payloads that set qty alone, and every shape of update payload.
QtyPayloads == {Payload("", q, Nil) : q \in {0, 1}}
UpdatePayloads ==
  {Payload(n, q, p) : n \in {"", "b"}, q \in {0, 1}, p \in {Nil, Ptr("")}}

\* Every shape of partial update.
PatchPayloads == {Patch(n, p) : n \in {"", "b"}, p \in {Nil, Ptr("")}}

PayloadSeqs == UNION {[1..n -> InsertPayloads] : n \in 0..MaxPayloads}

\* The options given to UpdateData and DeleteData.
WriteOptionArgs ==
  {Nil, Ptr(QueryOptions("", <<>>, "", 1, 0))}
  \cup {Ptr(QueryOptions(c.w, c.a, "", 0, 0)) : c \in WhereChoices}

\* The options of the other callers' writes: one for each statement that
\* WriteOptionArgs can render.
OtherWriteOptionArgs == {Ptr(QueryOptions(c.w, c.a, "", 0, 0)) : c \in WhereChoices}

\* The caller's frame is dropped when it has looked at the result.
Reset ==
  /\ pc' = "idle" /\ op' = "none" /\ options' = Nil /\ payloads' = <<>>
  /\ idx' = 0 /\ count' = 0 /\ tx' = NoTx /\ cursor' = "none" /\ ret' = NoRet
  /\ stmts' = <<>> /\ hist' = NoHist

\* The scan outcome fits the cursor: no row beyond its last, and nothing
\* to scan when no cursor was opened.
Fits(outcome, r) ==
  IF r.cursor = "none" THEN outcome.kind = "ok"
  ELSE outcome \in ScanOutcomes(Len(r.rows))

\* ------------------------------------------------------------- FindAll

\* Mutant of deferClose: rows.Close() is not deferred.
deferForget(c) == c

\* defer rows.Close()
deferClose(c) == IF c = "open" THEN "closed" ELSE c

\* What an operation hands back to its action: the returned data and error,
\* the statement it sent, the rows of its cursor and the cursor's state.
Outcome(data, err, stmt, rows, cur) ==
  [data |-> data, err |-> err, stmt |-> stmt, rows |-> rows, cursor |-> cur]

\* The statement FindAll sends.
SelectStmt(options_, w) ==
  Stmt(buildSelectQuery(TableName, options_, w.clause), w.args)

\* FindAll after db.Query: its error is wrapped, scanRows' result is
\* returned as it is.
FindAllReturn(stmt, res, scanned) ==
  IF res.err # NoError
  THEN Outcome(<<>>, Errorf("failed to query records", res.err), stmt, <<>>, "none")
  ELSE Outcome(scanned.data, scanned.err, stmt, res.rows, deferClose("open"))

FindAllQuery(stmt, res, outcome) ==
  FindAllReturn(stmt, res, scanRows(res.rows, outcome))

FindAllRun(options_, tbl, fault, outcome) ==
  FindAllQuery(SelectStmt(options_, buildWhereClause(options_)),
               StoreSelect(SelectStmt(options_, buildWhereClause(options_)).q,
                           SelectStmt(options_, buildWhereClause(options_)).args, tbl, fault),
               outcome)

FindAll ==
  /\ pc = "idle"
  /\ \E o \in OptionArgs, fault \in BOOLEAN, outcome \in ScanOutcomes(Len(table)) :
       /\ (fault => outcome.kind = "ok")
       /\ \E r \in {FindAllRun(o, table, fault, outcome)} :
          /\ Fits(outcome, r)
          /\ pc' = "done" /\ op' = "FindAll" /\ options' = o
          /\ ret' = Ret("rows", FALSE, r.data, 0, r.err)
          /\ cursor' = r.cursor /\ stmts' = <<r.stmt>>
          /\ hist' = [NoHist EXCEPT !.options0 = o, !.before = table, !.fault = fault,
                                    !.scan = outcome, !.result = r.rows]
  /\ UNCHANGED <<builder, table, nextId, payloads, idx, count, tx>>

\* ------------------------------------------------------------- FindOne

\* if options == nil { options = &QueryOptions{} }; options.Limit = 1
\* The pointer FindOne goes on with; when the caller's pointer is not nil it
\* is the caller's own value that is written.
ForceLimit(options_) ==
  IF options_ = Nil THEN Ptr([ZeroOptions EXCEPT !.Limit = 1])
  ELSE Ptr([Deref(options_) EXCEPT !.Limit = 1])

\* Mutant of FindOneReturn: an empty result is returned as (nil, nil).
FindOneReturnNil(r) ==
  IF r.err # NoError THEN Outcome(<<>>, r.err, r.stmt, r.rows, r.cursor)
  ELSE IF Len(r.data) = 0 THEN Outcome(<<>>, NoError, r.stmt, r.rows, r.cursor)
  ELSE Outcome(<<r.data[1]>>, NoError, r.stmt, r.rows, r.cursor)

\* FindOne after FindAll: r is FindAll's outcome.
FindOneReturn(r) ==
  IF r.err # NoError THEN Outcome(<<>>, r.err, r.stmt, r.rows, r.cursor)
  ELSE IF Len(r.data) = 0 THEN Outcome(<<>>, ErrNoRows, r.stmt, r.rows, r.cursor)
  ELSE Outcome(<<r.data[1]>>, NoError, r.stmt, r.rows, r.cursor)

FindOneRun(options_, tbl, fault, outcome) ==
  FindOneReturn(FindAllRun(ForceLimit(options_), tbl, fault, outcome))

\* Mutant of FindOneOptions: FindOne works on a copy of the options.
FindOneOptionsCopy(options_) == options_

\* The caller's options value after FindOne.
FindOneOptions(options_) == IF options_ = Nil THEN Nil ELSE ForceLimit(options_)

FindOne ==
  /\ pc = "idle"
  /\ \E o \in OptionArgs, fault \in BOOLEAN, outcome \in ScanOutcomes(Len(table)) :
       /\ (fault => outcome.kind = "ok")
       /\ \E r \in {FindOneRun(o, table, fault, outcome)} :
          /\ Fits(outcome, r)
          /\ pc' = "done" /\ op' = "FindOne" /\ options' = FindOneOptions(o)
          /\ ret' = Ret("ptr", FALSE, r.data, 0, r.err)
          /\ cursor' = r.cursor /\ stmts' = <<r.stmt>>
          /\ hist' = [NoHist EXCEPT !.options0 = o, !.before = table, !.fault = fault,
                                    !.scan = outcome, !.result = r.rows]
  /\ UNCHANGED <<builder, table, nextId, payloads, idx, count, tx>>

\* FindByPK builds its own options; the caller passes only the key.
FindByPKRun(pk, tbl, fault, outcome) ==
  FindOneRun(Ptr(QueryOptions("id = ?", <<pk>>, "", 0, 0)), tbl, fault, outcome)

\* The caller looks up any key, or, right after an InsertOne that returned
\* an identity, that identity.
FindByPK ==
  /\ \E pk \in 1..MaxId, fault \in BOOLEAN, outcome \in ScanOutcomes(Len(table)) :
       /\ (fault => outcome.kind = "ok")
       /\ \E r \in {FindByPKRun(pk, table, fault, outcome)} :
          /\ \/ pc = "idle"
             \/ pc = "done" /\ op = "InsertOne" /\ ret.err = NoError /\ pk = ret.n
          /\ Fits(outcome, r)
          /\ pc' = "done" /\ op' = "FindByPK" /\ options' = Nil
          /\ ret' = Ret("ptr", FALSE, r.data, pk, r.err)
          /\ cursor' = r.cursor /\ stmts' = <<r.stmt>>
          /\ hist' = [NoHist EXCEPT !.before = table, !.fault = fault,
                                    !.scan = outcome, !.result = r.rows]
  /\ UNCHANGED <<builder, table, nextId, payloads, idx, count, tx>>

\* ------------------------------------------------------ FindAllAndCount

\* Mutant of CountStmt: the COUNT leaves the WHERE clause out.
CountStmtNoWhere(w) == Stmt(buildCountQuery(TableName, <<>>), <<>>)

\* countQuery := fmt.Sprintf("SELECT COUNT(*) FROM %s%s", tableName, whereClause)
CountStmt(w) == Stmt(buildCountQuery(TableName, w.clause), w.args)

\* The first round trip: SELECT COUNT(*) over the WHERE clause.
CountReturn(stmt, res) ==
  [n |-> res.n,
   err |-> IF res.err # NoError THEN Errorf("failed to count records", res.err)
           ELSE NoError,
   stmt |-> stmt]

CountRun(options_, tbl, fault) ==
  CountReturn(CountStmt(buildWhereClause(options_)),
              StoreCount(CountStmt(buildWhereClause(options_)).q,
                         CountStmt(buildWhereClause(options_)).args, tbl, fault))

\* Mutant of SelectReturn: Count is taken from the page, len(Data).
SelectReturnLenData(n, stmt, res, scanned) ==
  IF res.err # NoError
  THEN [data |-> <<>>, n |-> 0, err |-> Errorf("failed to query records", res.err),
        stmt |-> stmt, rows |-> <<>>, cursor |-> "none"]
  ELSE IF scanned.err # NoError
  THEN [data |-> <<>>, n |-> 0, err |-> Errorf("failed to scan records", scanned.err),
        stmt |-> stmt, rows |-> res.rows, cursor |-> deferClose("open")]
  ELSE [data |-> scanned.data, n |-> Len(scanned.data), err |-> NoError,
        stmt |-> stmt, rows |-> res.rows, cursor |-> deferClose("open")]

\* The second round trip: the SELECT, its scan, and the result; n is
\* result.Count from the first.
SelectReturn(n, stmt, res, scanned) ==
  IF res.err # NoError
  THEN [data |-> <<>>, n |-> 0, err |-> Errorf("failed to query records", res.err),
        stmt |-> stmt, rows |-> <<>>, cursor |-> "none"]
  ELSE IF scanned.err # NoError
  THEN [data |-> <<>>, n |-> 0, err |-> Errorf("failed to scan records", scanned.err),
        stmt |-> stmt, rows |-> res.rows, cursor |-> deferClose("open")]
  ELSE [data |-> scanned.data, n |-> n, err |-> NoError,
        stmt |-> stmt, rows |-> res.rows, cursor |-> deferClose("open")]

SelectQuery(n, stmt, res, outcome) ==
  SelectReturn(n, stmt, res, scanRows(res.rows, outcome))

SelectRun(options_, n, tbl, fault, outcome) ==
  SelectQuery(n, SelectStmt(options_, buildWhereClause(options_)),
              StoreSelect(SelectStmt(options_, buildWhereClause(options_)).q,
                          SelectStmt(options_, buildWhereClause(options_)).args, tbl, fault),
              outcome)

FindAllAndCount_Count ==
  /\ pc = "idle"
  /\ \E o \in OptionArgs, fault \in BOOLEAN :
       \E r \in {CountRun(o, table, fault)} :
          /\ op' = "FindAllAndCount" /\ options' = o
          /\ stmts' = <<r.stmt>>
          /\ hist' = [NoHist EXCEPT !.options0 = o, !.fault = fault]
          /\ IF r.err # NoError
             THEN /\ pc' = "done" /\ count' = 0
                  /\ ret' = Ret("count", FALSE, <<>>, 0, r.err)
             ELSE /\ pc' = "select" /\ count' = r.n
                  /\ ret' = ret
  /\ UNCHANGED <<builder, table, nextId, payloads, idx, tx, cursor>>

FindAllAndCount_Select ==
  /\ pc = "select"
  /\ \E fault \in BOOLEAN, outcome \in ScanOutcomes(Len(table)) :
       /\ (fault => outcome.kind = "ok")
       /\ \E r \in {SelectRun(options, count, table, fault, outcome)} :
          /\ Fits(outcome, r)
          /\ pc' = "done"
          /\ ret' = Ret("count", FALSE, r.data, r.n, r.err)
          /\ cursor' = r.cursor /\ stmts' = Append(stmts, r.stmt)
          /\ hist' = [hist EXCEPT !.before = table, !.fault = fault,
                                  !.scan = outcome, !.result = r.rows]
  /\ UNCHANGED <<builder, table, nextId, op, options, payloads, idx, count, tx>>

\* ------------------------------------------------- the joins variant

\* The *QueryOptionsWithJoins a caller passes.
JoinOptionArgs ==
  {Nil,
   Ptr(QueryOptionsWithJoins(<<NewInnerJoin("tags", "tags.item = items.id"),
                               NewLeftJoin("owners", "owners.item = items.id")>>,
                             "qty = ?", <<0>>, "id DESC", 1, 1, "items.*")),
   Ptr(QueryOptionsWithJoins(<<NewLeftJoin("owners", "owners.item = items.id")>>,
                             "", <<>>, "", 0, 1, "")),
   Ptr(QueryOptionsWithJoins(<<>>, "qty = ?", <<1>>, "", 2, 0, ""))}

\* The statement FindAllWithJoins sends.
JoinSelectStmt(options_) == Stmt(buildJoinQuery(TableName, options_), JoinArgs(options_))

\* FindAllWithJoins after db.Query.
FindAllWithJoinsReturn(stmt, res, scanned) ==
  IF res.err # NoError
  THEN Outcome(<<>>, Errorf("failed to query records with joins", res.err), stmt, <<>>, "none")
  ELSE Outcome(scanned.data, scanned.err, stmt, res.rows, deferClose("open"))

FindAllWithJoinsQuery(stmt, res, outcome) ==
  FindAllWithJoinsReturn(stmt, res, scanRows(res.rows, outcome))

FindAllWithJoinsRun(options_, tbl, fault, outcome) ==
  FindAllWithJoinsQuery(JoinSelectStmt(options_),
                        StoreJoinSelect(JoinSelectStmt(options_).q,
                                        JoinSelectStmt(options_).args, tbl, fault),
                        outcome)

FindAllWithJoins ==
  /\ pc = "idle"
  /\ \E o \in JoinOptionArgs, fault \in BOOLEAN, outcome \in ScanOutcomes(Len(table)) :
       /\ (fault => outcome.kind = "ok")
       /\ \E r \in {FindAllWithJoinsRun(o, table, fault, outcome)} :
          /\ Fits(outcome, r)
          /\ pc' = "done" /\ op' = "FindAllWithJoins" /\ options' = o
          /\ ret' = Ret("rows", FALSE, r.data, 0, r.err)
          /\ cursor' = r.cursor /\ stmts' = <<r.stmt>>
          /\ hist' = [NoHist EXCEPT !.options0 = o, !.before = table, !.fault = fault,
                                    !.scan = outcome, !.result = r.rows]
  /\ UNCHANGED <<builder, table, nextId, payloads, idx, count, tx>>

\* The statement of FindAllAndCountWithJoins' first round trip.
JoinCountStmt(options_) ==
  Stmt(buildCountQueryWithJoins(TableName, options_), JoinArgs(options_))

CountWithJoinsRun(options_, tbl, fault) ==
  CountReturn(JoinCountStmt(options_),
              StoreJoinCount(JoinCountStmt(options_).q, JoinCountStmt(options_).args,
                             tbl, fault))

\* Its second round trip: returns as FindAllAndCount's does.
SelectWithJoinsRun(options_, n, tbl, fault, outcome) ==
  SelectQuery(n, JoinSelectStmt(options_),
              StoreJoinSelect(JoinSelectStmt(options_).q, JoinSelectStmt(options_).args,
                              tbl, fault),
              outcome)

FindAllAndCountWithJoins_Count ==
  /\ pc = "idle"
  /\ \E o \in JoinOptionArgs, fault \in BOOLEAN :
       \E r \in {CountWithJoinsRun(o, table, fault)} :
          /\ op' = "FindAllAndCountWithJoins" /\ options' = o
          /\ stmts' = <<r.stmt>>
          /\ hist' = [NoHist EXCEPT !.options0 = o, !.fault = fault]
          /\ IF r.err # NoError
             THEN /\ pc' = "done" /\ count' = 0
                  /\ ret' = Ret("count", FALSE, <<>>, 0, r.err)
             ELSE /\ pc' = "selectJoins" /\ count' = r.n
                  /\ ret' = ret
  /\ UNCHANGED <<builder, table, nextId, payloads, idx, tx, cursor>>

FindAllAndCountWithJoins_Select ==
  /\ pc = "selectJoins"
  /\ \E fault \in BOOLEAN, outcome \in ScanOutcomes(Len(table)) :
       /\ (fault => outcome.kind = "ok")
       /\ \E r \in {SelectWithJoinsRun(options, count, table, fault, outcome)} :
          /\ Fits(outcome, r)
          /\ pc' = "done"
          /\ ret' = Ret("count", FALSE, r.data, r.n, r.err)
          /\ cursor' = r.cursor /\ stmts' = Append(stmts, r.stmt)
          /\ hist' = [hist EXCEPT !.before = table, !.fault = fault,
                                  !.scan = outcome, !.result = r.rows]
  /\ UNCHANGED <<builder, table, nextId, op, options, payloads, idx, count, tx>>

\* options = &QueryOptionsWithJoins{} when nil; options.Limit = 1
ForceJoinLimit(options_) ==
  IF options_ = Nil THEN Ptr([ZeroJoinOptions EXCEPT !.Limit = 1])
  ELSE Ptr([Deref(options_) EXCEPT !.Limit = 1])

\* FindOneWithJoins after FindAllWithJoins: r is its outcome.
FindOneWithJoinsReturn(r) ==
  IF r.err # NoError THEN Outcome(<<>>, r.err, r.stmt, r.rows, r.cursor)
  ELSE IF Len(r.data) = 0 THEN Outcome(<<>>, ErrNoRows, r.stmt, r.rows, r.cursor)
  ELSE Outcome(<<r.data[1]>>, NoError, r.stmt, r.rows, r.cursor)

FindOneWithJoinsRun(options_, tbl, fault, outcome) ==
  FindOneWithJoinsReturn(FindAllWithJoinsRun(ForceJoinLimit(options_), tbl, fault, outcome))

\* ------------------------------------------- the builder and its callers

\* The joins, conditions and values the caller builds with.
MethodJoins == {[t |-> "tags", c |-> "tags.item = items.id"],
                [t |-> "owners", c |-> "owners.item = items.id"]}
MethodWheres == {[w |-> "", a |-> <<>>], [w |-> "qty = ?", a |-> <<0>>]}

\* The caller extends the builder between two calls.
Building(jb) ==
  /\ pc = "idle"
  /\ builder' = jb
  /\ builder' # builder
  /\ UNCHANGED <<table, nextId, pc, op, options, payloads, idx, count, tx, cursor, ret,
                 stmts, hist>>

JoinBuilder_InnerJoin ==
  \E j \in MethodJoins :
     /\ Len(Deref(builder.options).Joins) < MaxJoins
     /\ Building(AddJoin(builder, NewInnerJoin(j.t, j.c)))

JoinBuilder_LeftJoin ==
  \E j \in MethodJoins :
     /\ Len(Deref(builder.options).Joins) < MaxJoins
     /\ Building(AddJoin(builder, NewLeftJoin(j.t, j.c)))

JoinBuilder_RightJoin ==
  \E j \in MethodJoins :
     /\ Len(Deref(builder.options).Joins) < MaxJoins
     /\ Building(AddJoin(builder, NewRightJoin(j.t, j.c)))

JoinBuilder_FullJoin ==
  \E j \in MethodJoins :
     /\ Len(Deref(builder.options).Joins) < MaxJoins
     /\ Building(AddJoin(builder, NewFullJoin(j.t, j.c)))

JoinBuilder_Select == \E fields \in {"", "items.*"} : Building(SetOption(builder, "Select", fields))

JoinBuilder_Where ==
  \E c \in MethodWheres :
     Building(SetOption(SetOption(builder, "Where", c.w), "WhereArgs", c.a))

JoinBuilder_OrderBy == \E o \in {"", "id DESC"} : Building(SetOption(builder, "OrderBy", o))

JoinBuilder_Limit == \E l \in {0, 2} : Building(SetOption(builder, "Limit", l))

JoinBuilder_Offset == \E f \in {0, 1} : Building(SetOption(builder, "Offset", f))

\* Execute: FindAllWithJoins with the builder's table name and options.
Execute ==
  /\ pc = "idle"
  /\ \E fault \in BOOLEAN, outcome \in ScanOutcomes(Len(table)) :
       /\ (fault => outcome.kind = "ok")
       /\ \E r \in {FindAllWithJoinsRun(GetOptions(builder), table, fault, outcome)} :
          /\ Fits(outcome, r)
          /\ pc' = "done" /\ op' = "Execute"
          /\ ret' = Ret("rows", FALSE, r.data, 0, r.err)
          /\ cursor' = r.cursor /\ stmts' = <<r.stmt>>
          /\ hist' = [NoHist EXCEPT !.options0 = GetOptions(builder), !.before = table,
                                    !.fault = fault, !.scan = outcome, !.result = r.rows]
  /\ UNCHANGED <<builder, table, nextId, options, payloads, idx, count, tx>>

\* ExecuteOne: FindOneWithJoins with the builder's own options pointer, so
\* its options.Limit = 1 is written into the builder.
ExecuteOne ==
  /\ pc = "idle"
  /\ \E fault \in BOOLEAN, outcome \in ScanOutcomes(Len(table)) :
       /\ (fault => outcome.kind = "ok")
       /\ \E r \in {FindOneWithJoinsRun(GetOptions(builder), table, fault, outcome)} :
          /\ Fits(outcome, r)
          /\ pc' = "done" /\ op' = "ExecuteOne"
          /\ builder' = [builder EXCEPT !.options = ForceJoinLimit(GetOptions(builder))]
          /\ ret' = Ret("ptr", FALSE, r.data, 0, r.err)
          /\ cursor' = r.cursor /\ stmts' = <<r.stmt>>
          /\ hist' = [NoHist EXCEPT !.options0 = GetOptions(builder), !.before = table,
                                    !.fault = fault, !.scan = outcome, !.result = r.rows]
  /\ UNCHANGED <<table, nextId, options, payloads, idx, count, tx>>

\* ExecuteWithCount: FindAllAndCountWithJoins with the builder's options.
ExecuteWithCount_Count ==
  /\ pc = "idle"
  /\ \E fault \in BOOLEAN :
       \E r \in {CountWithJoinsRun(GetOptions(builder), table, fault)} :
          /\ op' = "ExecuteWithCount"
          /\ stmts' = <<r.stmt>>
          /\ hist' = [NoHist EXCEPT !.options0 = GetOptions(builder), !.fault = fault]
          /\ IF r.err # NoError
             THEN /\ pc' = "done" /\ count' = 0
                  /\ ret' = Ret("count", FALSE, <<>>, 0, r.err)
             ELSE /\ pc' = "selectBuilder" /\ count' = r.n
                  /\ ret' = ret
  /\ UNCHANGED <<builder, table, nextId, options, payloads, idx, tx, cursor>>

ExecuteWithCount_Select ==
  /\ pc = "selectBuilder"
  /\ \E fault \in BOOLEAN, outcome \in ScanOutcomes(Len(table)) :
       /\ (fault => outcome.kind = "ok")
       /\ \E r \in {SelectWithJoinsRun(GetOptions(builder), count, table, fault, outcome)} :
          /\ Fits(outcome, r)
          /\ pc' = "done"
          /\ ret' = Ret("count", FALSE, r.data, r.n, r.err)
          /\ cursor' = r.cursor /\ stmts' = Append(stmts, r.stmt)
          /\ hist' = [hist EXCEPT !.before = table, !.fault = fault,
                                  !.scan = outcome, !.result = r.rows]
  /\ UNCHANGED <<builder, table, nextId, op, options, payloads, idx, count, tx>>

\* ------------------------------------------------------------ InsertOne

InsertStmt(d) == Stmt(InsertQuery(TableName, d), d.values)

\* InsertOne after db.Exec.  lastId: whether the driver can report the
\* generated identity.
InsertOneReturn(stmt, res, tbl, id, lastId) ==
  IF res.err # NoError
  THEN [id |-> 0, err |-> Errorf("failed to insert record", res.err),
        table |-> tbl, nextId |-> id, stmt |-> stmt]
  ELSE [id |-> IF lastId THEN id ELSE 0,
        err |-> IF lastId THEN NoError
                ELSE Errorf("failed to get last insert ID", ErrNoLastId),
        table |-> Append(tbl, res.row), nextId |-> id + 1, stmt |-> stmt]

InsertOneRun(payload, tbl, id, fault, lastId) ==
  InsertOneReturn(InsertStmt(buildInsertData(payload)),
                  StoreInsert(InsertStmt(buildInsertData(payload)).q,
                              InsertStmt(buildInsertData(payload)).args, id, fault),
                  tbl, id, lastId)

InsertOneOf(Payloads) ==
  /\ pc = "idle"
  /\ \E payload \in Payloads, fault \in BOOLEAN, lastId \in BOOLEAN :
       \E r \in {InsertOneRun(payload, table, nextId, fault, lastId)} :
          /\ (fault => lastId)
          /\ pc' = "done" /\ op' = "InsertOne" /\ payloads' = <<payload>>
          /\ ret' = Ret("id", FALSE, <<>>, r.id, r.err)
          /\ table' = r.table /\ nextId' = r.nextId
          /\ stmts' = <<r.stmt>>
          /\ hist' = [NoHist EXCEPT !.before = table, !.fault = fault]
  /\ UNCHANGED <<builder, options, idx, count, tx, cursor>>

InsertOne == InsertOneOf(InsertPayloads)
InsertOneAny == InsertOneOf(UpdatePayloads)

\* ----------------------------------------------------------- BulkInsert

\* Mutant of TxExec: the INSERT runs on the pool (db.Exec), outside the
\* transaction.
TxExecOnDb(tx_, tbl, row) ==
  [tx |-> [tx_ EXCEPT !.ids = @ \cup {row.id}], table |-> Append(tbl, row)]

\* tx.Exec of one INSERT: the row is pending in the transaction, out of
\* sight of the table until the commit.
TxExec(tx_, tbl, row) ==
  [tx |-> [tx_ EXCEPT !.rows = Append(@, row), !.ids = @ \cup {row.id}], table |-> tbl]

\* Mutant of TxCommit: only the first pending row is applied.
TxCommitFirst(tx_, tbl) ==
  [tx |-> [tx_ EXCEPT !.state = "committed", !.rows = <<>>],
   table |-> tbl \o Take(tx_.rows, 1)]

\* tx.Commit(): the pending rows reach the table.
TxCommit(tx_, tbl) ==
  [tx |-> [tx_ EXCEPT !.state = "committed", !.rows = <<>>], table |-> tbl \o tx_.rows]

\* Mutant of deferRollback: the deferred Rollback is missing.
deferNothing(tx_) == tx_

\* defer tx.Rollback(): drops what is pending; on a transaction that is
\* already committed or rolled back it does nothing (sql.ErrTxDone).
deferRollback(tx_) ==
  IF tx_.state = "open" THEN [tx_ EXCEPT !.state = "rolledback", !.rows = <<>>] ELSE tx_

\* A commit that failed has ended the transaction without applying it.
CommitFailed(tx_) == [tx_ EXCEPT !.state = "rolledback", !.rows = <<>>]

\* The value BulkInsert returns: (bool, error).
BulkInsertReturn(ok, err) == Ret("bool", ok, <<>>, 0, err)

BulkInsert_Begin ==
  /\ pc = "idle"
  /\ \E ps \in PayloadSeqs, fault \in BOOLEAN :
       /\ (Len(ps) = 0 => ~fault)
       /\ op' = "BulkInsert" /\ payloads' = ps
       /\ hist' = [NoHist EXCEPT !.before = table, !.fault = fault]
       /\ IF Len(ps) = 0
          THEN /\ pc' = "done" /\ idx' = 0 /\ tx' = tx
               /\ ret' = BulkInsertReturn(TRUE, NoError)
          ELSE IF fault
          THEN /\ pc' = "done" /\ idx' = 0 /\ tx' = tx
               /\ ret' = BulkInsertReturn(FALSE, Errorf("failed to begin transaction", ErrTxBegin))
          ELSE /\ pc' = "exec" /\ idx' = 1
               /\ tx' = [state |-> "open", rows |-> <<>>, ids |-> {}]
               /\ ret' = ret
  /\ UNCHANGED <<builder, table, nextId, options, count, cursor, stmts>>

BulkInsert_Exec ==
  /\ pc = "exec"
  /\ \E fault \in BOOLEAN :
       \E stmt \in {InsertStmt(buildInsertData(payloads[idx]))} :
       \E res \in {StoreInsert(stmt.q, stmt.args, nextId, fault)} :
          /\ stmts' = Append(stmts, stmt)
          /\ hist' = [hist EXCEPT !.fault = fault]
          /\ IF res.err # NoError
             THEN /\ pc' = "done"
                  /\ ret' = BulkInsertReturn(FALSE, Errorf("failed to insert record", res.err))
                  /\ tx' = deferRollback(tx)
                  /\ UNCHANGED <<table, nextId, idx>>
             ELSE /\ tx' = TxExec(tx, table, res.row).tx
                  /\ table' = TxExec(tx, table, res.row).table
                  /\ nextId' = nextId + 1
                  /\ idx' = idx + 1
                  /\ pc' = IF idx = Len(payloads) THEN "commit" ELSE "exec"
                  /\ ret' = ret
  /\ UNCHANGED <<builder, op, options, payloads, count, cursor>>

BulkInsert_Commit ==
  /\ pc = "commit"
  /\ \E fault \in BOOLEAN :
       /\ hist' = [hist EXCEPT !.fault = fault]
       /\ pc' = "done"
       /\ IF fault
          THEN /\ ret' = BulkInsertReturn(FALSE, Errorf("failed to commit transaction", ErrCommit))
               /\ tx' = deferRollback(CommitFailed(tx))
               /\ table' = table
          ELSE /\ ret' = BulkInsertReturn(TRUE, NoError)
               /\ tx' = deferRollback(TxCommit(tx, table).tx)
               /\ table' = TxCommit(tx, table).table
  /\ UNCHANGED <<builder, nextId, op, options, payloads, idx, count, cursor, stmts>>

\* ------------------------------------------------- UpdateData, DeleteData

\* What a write hands back to its action: as Outcome, and the table after.
WriteOutcome(data, err, tbl, stmt, rows, cur) ==
  [data |-> data, err |-> err, table |-> tbl, stmt |-> stmt, rows |-> rows, cursor |-> cur]

\* args := append(setArgs, whereArgs...) and the UPDATE statement.
UpdateStmt(set, w) ==
  Stmt(<<"UPDATE ", TableName, " SET ">> \o set.clause \o w.clause \o <<" RETURNING *">>,
       set.args \o w.args)

UpdateDataReturn(stmt, res, scanned) ==
  IF res.err # NoError
  THEN WriteOutcome(<<>>, Errorf("failed to update records", res.err), res.table, stmt,
                    <<>>, "none")
  ELSE WriteOutcome(scanned.data, scanned.err, res.table, stmt, res.rows,
                    deferClose("open"))

UpdateDataQuery(stmt, res, outcome) ==
  UpdateDataReturn(stmt, res, scanRows(res.rows, outcome))

UpdateDataRun(payload, options_, tbl, fault, outcome) ==
  UpdateDataQuery(UpdateStmt(buildSetClause(payload), buildWhereClause(options_)),
                  StoreUpdate(UpdateStmt(buildSetClause(payload), buildWhereClause(options_)).q,
                              UpdateStmt(buildSetClause(payload), buildWhereClause(options_)).args,
                              tbl, fault),
                  outcome)

UpdateDataOf(Payloads) ==
  /\ pc = "idle"
  /\ \E payload \in Payloads, o \in WriteOptionArgs, fault \in BOOLEAN,
        outcome \in ScanOutcomes(Len(table)) :
       /\ (fault => outcome.kind = "ok")
       /\ \E r \in {UpdateDataRun(payload, o, table, fault, outcome)} :
          /\ Fits(outcome, r)
          /\ pc' = "done" /\ op' = "UpdateData" /\ options' = o
          /\ payloads' = <<payload>>
          /\ ret' = Ret("rows", FALSE, r.data, 0, r.err)
          /\ table' = r.table
          /\ cursor' = r.cursor /\ stmts' = <<r.stmt>>
          /\ hist' = [NoHist EXCEPT !.options0 = o, !.before = table, !.fault = fault,
                                    !.scan = outcome, !.result = r.rows]
  /\ UNCHANGED <<builder, nextId, idx, count, tx>>

UpdateData == UpdateDataOf(QtyPayloads)
UpdateDataAny == UpdateDataOf(UpdatePayloads)
UpdateDataPatch == UpdateDataOf(PatchPayloads)

\* Mutant of DeleteStmt: the DELETE leaves the WHERE clause out.
DeleteStmtNoWhere(w) == Stmt(<<"DELETE FROM ", TableName, " RETURNING *">>, <<>>)

DeleteStmt(w) ==
  Stmt(<<"DELETE FROM ", TableName>> \o w.clause \o <<" RETURNING *">>, w.args)

DeleteDataReturn(stmt, res, scanned) ==
  IF res.err # NoError
  THEN WriteOutcome(<<>>, Errorf("failed to delete records", res.err), res.table, stmt,
                    <<>>, "none")
  ELSE WriteOutcome(scanned.data, scanned.err, res.table, stmt, res.rows,
                    deferClose("open"))

DeleteDataQuery(stmt, res, outcome) ==
  DeleteDataReturn(stmt, res, scanRows(res.rows, outcome))

DeleteDataRun(options_, tbl, fault, outcome) ==
  DeleteDataQuery(DeleteStmt(buildWhereClause(options_)),
                  StoreDelete(DeleteStmt(buildWhereClause(options_)).q,
                              DeleteStmt(buildWhereClause(options_)).args, tbl, fault),
                  outcome)

DeleteData ==
  /\ pc = "idle"
  /\ \E o \in WriteOptionArgs, fault \in BOOLEAN, outcome \in ScanOutcomes(Len(table)) :
       /\ (fault => outcome.kind = "ok")
       /\ \E r \in {DeleteDataRun(o, table, fault, outcome)} :
          /\ Fits(outcome, r)
          /\ pc' = "done" /\ op' = "DeleteData" /\ options' = o
          /\ ret' = Ret("rows", FALSE, r.data, 0, r.err)
          /\ table' = r.table
          /\ cursor' = r.cursor /\ stmts' = <<r.stmt>>
          /\ hist' = [NoHist EXCEPT !.options0 = o, !.before = table, !.fault = fault,
                                    !.scan = outcome, !.result = r.rows]
  /\ UNCHANGED <<builder, nextId, payloads, idx, count, tx>>

\* ------------------------------------------------------- other callers

\* A write by another caller of the pool while this caller is between two
\* round trips: its InsertOne, UpdateData or DeleteData, one statement each.
\* A statement that fails or changes nothing is no write.
ConcurrentWrite ==
  /\ pc \in {"select", "selectJoins", "exec", "commit"}
  /\ \/ \E payload \in InsertPayloads :
          \E r \in {InsertOneRun(payload, table, nextId, FALSE, TRUE)} :
             r.err = NoError /\ table' = r.table /\ nextId' = r.nextId
     \/ \E payload \in QtyPayloads, o \in OtherWriteOptionArgs :
          \E r \in {UpdateDataRun(payload, o, table, FALSE, [kind |-> "ok", at |-> 0])} :
             r.err = NoError /\ table' = r.table /\ nextId' = nextId
     \/ \E o \in OtherWriteOptionArgs :
          \E r \in {DeleteDataRun(o, table, FALSE, [kind |-> "ok", at |-> 0])} :
             r.err = NoError /\ table' = r.table /\ nextId' = nextId
  /\ table' # table
  /\ hist' = [hist EXCEPT !.wrote = TRUE]
  /\ UNCHANGED <<builder, pc, op, options, payloads, idx, count, tx, cursor, ret, stmts>>

Return ==
  /\ pc = "done"
  /\ Reset
  /\ UNCHANGED <<builder, table, nextId>>

Next ==
  \/ FindAll \/ FindOne \/ FindByPK
  \/ FindAllAndCount_Count \/ FindAllAndCount_Select
  \/ FindAllWithJoins
  \/ FindAllAndCountWithJoins_Count \/ FindAllAndCountWithJoins_Select
  \/ InsertOne
  \/ BulkInsert_Begin \/ BulkInsert_Exec \/ BulkInsert_Commit
  \/ UpdateData \/ DeleteData
  \/ ConcurrentWrite
  \/ Return

Spec == Init /\ [][Next]_vars

\* UpdateData over every shape of payload, on rows InsertOne has put there.
NextUpdate == InsertOne \/ UpdateDataAny \/ Return

SpecUpdate == Init /\ [][NextUpdate]_vars

\* UpdateData with partial-update payloads, on rows InsertOne has put there.
NextPatch == InsertOne \/ UpdateDataPatch \/ Return

SpecPatch == Init /\ [][NextPatch]_vars

\* A caller building a JoinBuilder and executing it, over and over, on rows
\* InsertOne has put there.
NextJoins ==
  \/ JoinBuilder_InnerJoin \/ JoinBuilder_LeftJoin
  \/ JoinBuilder_RightJoin \/ JoinBuilder_FullJoin
  \/ JoinBuilder_Select \/ JoinBuilder_Where \/ JoinBuilder_OrderBy
  \/ JoinBuilder_Limit \/ JoinBuilder_Offset
  \/ Execute \/ ExecuteOne
  \/ ExecuteWithCount_Count \/ ExecuteWithCount_Select
  \/ InsertOne \/ Return

SpecJoins == Init /\ [][NextJoins]_vars

\* InsertOne of every shape of payload, and FindByPK of what it returned.
NextInsert == InsertOneAny \/ FindByPK \/ Return

SpecInsert == Init /\ [][NextInsert]_vars

\* ============================================================= properties

Done(o) == pc = "done" /\ op = o
Succeeded == ret.err = NoError

\* The options value an operation was given, nil read as the zero value.
Given == IF hist.options0 = Nil THEN ZeroOptions ELSE Deref(hist.options0)

\* Whether row satisfies the WHERE predicate of options value o.
Match(row, o) ==
  \/ o.Where = ""
  \/ o.Where = "qty = ?" /\ row.qty = o.WhereArgs[1]
  \/ o.Where = "id = ?" /\ row.id = o.WhereArgs[1]

\* The rows of tbl matching o's WHERE, in o's ORDER BY (store order without).
Matching(tbl, o) == Order(SelectSeq(tbl, LAMBDA r : Match(r, o)), o.OrderBy)

Range(s) == {s[k] : k \in 1..Len(s)}

\* ---- C1

\* The rows of BulkInsert's batch that are in the table.
BatchRowsInTable == {k \in 1..Len(table) : table[k].id \in tx.ids}

\* C1: BulkInsert is all-or-nothing.  Rows of the batch are in the table only
\* when every insert and the commit succeeded; when BulkInsert reports failure
\* none of them is; when it reports success all of them are.
C1_AllOrNothing ==
  op = "BulkInsert" /\ Len(payloads) > 0 =>
    /\ BatchRowsInTable # {} =>
         /\ tx.state = "committed"
         /\ Cardinality(tx.ids) = Len(payloads)
         /\ pc = "done" /\ ret.ok /\ Succeeded
    /\ pc = "done" /\ ~Succeeded => ~ret.ok /\ BatchRowsInTable = {}
    /\ pc = "done" /\ ~ret.ok => ~Succeeded
    /\ pc = "done" /\ Succeeded => Cardinality(BatchRowsInTable) = Len(payloads)

\* An insert failed after another of the batch had succeeded, among rows of
\* other callers.
C1_Witness ==
  /\ Done("BulkInsert") /\ ~Succeeded
  /\ tx.ids # {} /\ Head(ret.err) = "failed to insert record"
  /\ table # <<>>

\* ---- C2

\* Whether BulkInsert's db.Begin() succeeded.
Began ==
  /\ op = "BulkInsert" /\ Len(payloads) > 0
  /\ ~(pc = "done" /\ ~Succeeded /\ Head(ret.err) = "failed to begin transaction")

\* C2: a transaction BulkInsert has begun is open while BulkInsert runs and
\* is committed or rolled back when it returns, on every return path.
C2_TxClosedAtReturn ==
  Began =>
    /\ pc \in {"exec", "commit"} => tx.state = "open"
    /\ pc = "done" => tx.state \in {"committed", "rolledback"}
    /\ pc = "done" => (tx.state = "committed" <=> Succeeded)

C2_Witness ==
  /\ Done("BulkInsert") /\ Began
  /\ tx.state = "rolledback" /\ Head(ret.err) = "failed to insert record"

\* ---- C3

\* The rows of the batch in the table, in table order.
BatchRows == SelectSeq(table, LAMBDA r : r.id \in tx.ids)

\* C3 as claimed: on success BulkInsert returns one inserted row per payload,
\* in input order.
C3_ReturnsRows ==
  Done("BulkInsert") /\ Succeeded =>
    ret.kind = "rows" /\ Len(ret.data) = Len(payloads)

\* C3 as amended: on success BulkInsert returns true and a nil error and no
\* rows, having sent one INSERT per payload in input order, whose rows are in
\* the table in that order; for an empty payload sequence it begins no
\* transaction, sends no statement and returns true.
C3_ReturnsTrue ==
  Done("BulkInsert") =>
    /\ Len(payloads) = 0 =>
         /\ ret = Ret("bool", TRUE, <<>>, 0, NoError)
         /\ tx.state = "none" /\ stmts = <<>> /\ table = hist.before
    /\ Succeeded =>
         /\ ret.kind = "bool" /\ ret.ok /\ ret.data = <<>>
         /\ Len(stmts) = Len(payloads)
         /\ \A k \in 1..Len(payloads) :
              /\ stmts[k].q[1] = "INSERT INTO "
              /\ stmts[k].args = <<payloads[k][2], payloads[k][3], payloads[k][4]>>
         /\ Len(BatchRows) = Len(payloads)
         /\ \A k \in 1..Len(BatchRows) :
              /\ BatchRows[k].name = payloads[k][2]
              /\ BatchRows[k].qty = payloads[k][3]

C3_Witness ==
  /\ Done("BulkInsert") /\ Succeeded
  /\ Len(payloads) >= 2 /\ payloads[1] # payloads[2]

\* ---- C4

\* The store executed FindOne's query and every row scanned.
QueryRan == ~hist.fault /\ hist.scan.kind = "ok"

\* C4 as claimed: no-rows exactly when the query ran and no row matches the
\* WHERE; an error other than no-rows when it failed; the first matching row
\* in the ORDER BY otherwise.
C4_FirstMatch ==
  Done("FindOne") =>
    /\ ret.err = ErrNoRows <=> (QueryRan /\ Matching(hist.before, Given) = <<>>)
    /\ ~QueryRan => ~Succeeded /\ ret.err # ErrNoRows
    /\ QueryRan /\ Matching(hist.before, Given) # <<>> =>
         /\ Succeeded
         /\ ret.data = <<ScanItem(Matching(hist.before, Given)[1])>>

\* C4 as amended: the result of the query is the matching rows in the ORDER
\* BY without the first Offset of them.  No-rows exactly when the query ran
\* and that result is empty; the first row of that result otherwise.
C4_FirstOfResult ==
  Done("FindOne") =>
    /\ ret.err = ErrNoRows <=>
         (QueryRan /\ Skip(Matching(hist.before, Given), Given.Offset) = <<>>)
    /\ ~QueryRan => ~Succeeded /\ ret.err # ErrNoRows /\ ret.data = <<>>
    /\ QueryRan /\ Skip(Matching(hist.before, Given), Given.Offset) # <<>> =>
         /\ Succeeded
         /\ ret.data = <<ScanItem(Matching(hist.before, Given)[Given.Offset + 1])>>

C4_Witness ==
  /\ Done("FindOne") /\ Succeeded
  /\ Given.OrderBy = "id DESC" /\ Given.Offset = 1
  /\ Len(Matching(hist.before, Given)) = 2
  /\ ret.data[1].id = 1

\* ---- C5

\* C5: FindOne given a non-nil options value leaves it with Limit = 1 and
\* every other field as given, whatever the outcome; every other operation
\* leaves the options it was given as they were.
C5_OptionsFrame ==
  pc # "idle" =>
    IF op = "FindOne" /\ hist.options0 # Nil
    THEN options = Ptr([Deref(hist.options0) EXCEPT !.Limit = 1])
    ELSE options = hist.options0

C5_Witness ==
  /\ Done("FindOne") /\ ~Succeeded
  /\ hist.options0 # Nil /\ Given.Limit = 2 /\ Given.Offset = 1
  /\ Deref(options).Limit = 1 /\ Deref(options).Offset = 1

\* ---- C6

\* C6 as claimed: a successful FindAll returns at most Limit rows when
\* Limit > 0 and all the rows matching the WHERE otherwise.
C6_AllMatching ==
  Done("FindAll") /\ Succeeded =>
    /\ Given.Limit > 0 => Len(ret.data) <= Given.Limit
    /\ Given.Limit <= 0 =>
         /\ Len(ret.data) = Len(Matching(hist.before, Given))
         /\ Range(ret.data) = {ScanItem(r) : r \in Range(Matching(hist.before, Given))}

\* C6 as amended: ... and otherwise all the rows matching the WHERE but the
\* first Offset of them in the ORDER BY.
C6_AllButOffset ==
  Done("FindAll") /\ Succeeded =>
    /\ Given.Limit > 0 => Len(ret.data) <= Given.Limit
    /\ Given.Limit <= 0 =>
         ret.data = ScanItems(Skip(Matching(hist.before, Given), Given.Offset))

C6_Witness ==
  /\ Done("FindAll") /\ Succeeded
  /\ Given.Limit = 0 /\ Given.Offset = 1
  /\ Len(Matching(hist.before, Given)) = 2 /\ Len(ret.data) = 1

\* ---- C7

\* FindAllAndCount returned a result and no other caller wrote between its
\* COUNT and its SELECT.
CountedQuietly == Done("FindAllAndCount") /\ Succeeded /\ ~hist.wrote

\* C7 as claimed: with 0 < Limit < matching rows, Data has exactly Limit rows
\* and Count is the number of matching rows.
C7_PageOfLimit ==
  CountedQuietly /\ 0 < Given.Limit /\ Given.Limit < Len(Matching(table, Given)) =>
    /\ Len(ret.data) = Given.Limit
    /\ ret.n = Len(Matching(table, Given))

\* C7 as amended: Data has min(Limit, matching - Offset) rows, so exactly
\* Limit when Offset + Limit does not exceed the matching rows.
C7_PageOfLimitAfterOffset ==
  CountedQuietly /\ 0 < Given.Limit /\ Given.Limit < Len(Matching(table, Given)) =>
    /\ Len(ret.data) = Min(Given.Limit, Max(0, Len(Matching(table, Given)) - Given.Offset))
    /\ ret.n = Len(Matching(table, Given))

C7_Witness ==
  /\ CountedQuietly /\ Given.Limit = 1 /\ Given.Offset = 0
  /\ Given.Where = "qty = ?" /\ Given.OrderBy = "id DESC"
  /\ Len(Matching(table, Given)) > 1
  /\ Len(ret.data) = 1 /\ ret.n = Len(Matching(table, Given))

\* ---- C8

\* C8: FindAllAndCount sends the COUNT and then the SELECT as two statements
\* outside any transaction, and returns the COUNT's answer as it was; so
\* Count differs from the rows matching when the SELECT ran only if another
\* caller wrote in between -- and then it can.
C8_TwoRoundTrips ==
  op = "FindAllAndCount" =>
    /\ tx.state = "none"
    /\ pc = "select" => Len(stmts) = 1 /\ stmts[1].q[1] = "SELECT COUNT(*) FROM "
    /\ pc = "done" /\ Succeeded =>
         /\ Len(stmts) = 2 /\ stmts[2].q[1] = "SELECT * FROM "
         /\ ret.n = count
         /\ ret.n # Len(Matching(hist.before, Given)) => hist.wrote

C8_Witness ==
  /\ Done("FindAllAndCount") /\ Succeeded
  /\ Given.Limit = 0 /\ Given.Offset = 0
  /\ ret.n # Len(ret.data)

\* ---- C9

\* The SET list the payload stands for: name unless empty, qty always, note
\* unless nil.
ExpectedSet(payload) ==
  (IF payload[2] = "" THEN <<>> ELSE <<[col |-> "name", val |-> payload[2]]>>)
  \o <<[col |-> "qty", val |-> payload[3]]>>
  \o (IF payload[4] = Nil THEN <<>> ELSE <<[col |-> "note", val |-> payload[4]]>>)

\* row as the payload's update leaves it.
Updated(row, payload) ==
  [id |-> row.id,
   name |-> IF payload[2] = "" THEN row.name ELSE payload[2],
   qty |-> payload[3],
   note |-> IF payload[4] = Nil THEN row.note ELSE Deref(payload[4]),
   createdAt |-> row.createdAt]

\* C9: UpdateData's SET list is, in declaration order, the mapped fields that
\* are neither a nil pointer nor an empty string, with their values bound in
\* that order; so an empty string leaves the column as stored, a non-empty
\* one is written, and a zero integer is written.
C9_SetClause ==
  Done("UpdateData") =>
    /\ SetColumns(SetTokens(stmts[1].q))
         = [k \in 1..Len(ExpectedSet(payloads[1])) |-> ExpectedSet(payloads[1])[k].col]
    /\ SubSeq(stmts[1].args, 1, Len(ExpectedSet(payloads[1])))
         = [k \in 1..Len(ExpectedSet(payloads[1])) |-> ExpectedSet(payloads[1])[k].val]
    /\ ~hist.fault =>
         /\ Len(table) = Len(hist.before)
         /\ \A k \in 1..Len(table) :
              table[k] = IF Match(hist.before[k], Given)
                         THEN Updated(hist.before[k], payloads[1])
                         ELSE hist.before[k]

C9_Witness ==
  /\ Done("UpdateData") /\ Succeeded
  /\ payloads[1][2] = "" /\ payloads[1][3] = 0 /\ payloads[1][4] = Nil
  /\ \E k \in 1..Len(table) :
       /\ hist.before[k].qty = 1 /\ table[k].qty = 0
       /\ hist.before[k].name = "b" /\ table[k].name = "b"
       /\ table[k].note = ""

\* ---- C10

\* C10: a successful DeleteData removes exactly the rows matching the WHERE,
\* leaves every other row as it was, and returns the removed rows as they
\* were; with nil options or an empty Where that is every row.
C10_DeletesMatching ==
  Done("DeleteData") /\ Succeeded =>
    /\ table = SelectSeq(hist.before, LAMBDA r : ~Match(r, Given))
    /\ Len(ret.data) = Len(hist.before) - Len(table)
    /\ Range(ret.data) = {ScanItem(r) : r \in {x \in Range(hist.before) : Match(x, Given)}}
    /\ (hist.options0 = Nil \/ Given.Where = "") =>
         table = <<>> /\ Len(ret.data) = Len(hist.before)

C10_Witness ==
  /\ Done("DeleteData") /\ Succeeded
  /\ Len(hist.before) = 2 /\ Len(table) = 1 /\ Len(ret.data) = 1
  /\ ret.data[1].id = 1

\* ---- C11

GivenJoins == IF hist.options0 = Nil THEN ZeroJoinOptions ELSE Deref(hist.options0)

\* clauses is the optional clauses of o in the grammar's order, using only
\* the first `most` kinds: each there exactly when its option is set, and
\* carrying the option's value.
ClausesOf(clauses, o, most) ==
  /\ ClausesOK(clauses, most)
  /\ Has(clauses, " WHERE ") <=> o.Where # ""
  /\ Has(clauses, " WHERE ") => Get(clauses, " WHERE ") = o.Where
  /\ most > 1 =>
       /\ Has(clauses, " ORDER BY ") <=> o.OrderBy # ""
       /\ Has(clauses, " ORDER BY ") => Get(clauses, " ORDER BY ") = o.OrderBy
       /\ Has(clauses, " LIMIT ") <=> o.Limit > 0
       /\ Has(clauses, " LIMIT ") => Get(clauses, " LIMIT ") = Itoa(o.Limit)
       /\ Has(clauses, " OFFSET ") <=> o.Offset > 0
       /\ Has(clauses, " OFFSET ") => Get(clauses, " OFFSET ") = Itoa(o.Offset)

\* q has, from place `from`, one fragment per join of o in o's order, and
\* then the optional clauses.
JoinsOf(q, from, o, most) ==
  /\ Len(q) >= from - 1 + 6 * Len(o.Joins)
  /\ \A k \in 1..Len(o.Joins) :
       SubSeq(q, from + 6 * (k - 1), from + 6 * k - 1)
         = <<" ", o.Joins[k].Type, " ", o.Joins[k].Table, " ON ", o.Joins[k].Condition>>
  /\ ClausesOf(SubSeq(q, from + 6 * Len(o.Joins), Len(q)), o, most)

PlainSelectOf(q, o) ==
  /\ Len(q) >= 2 /\ SubSeq(q, 1, 2) = <<"SELECT * FROM ", TableName>>
  /\ ClausesOf(SubSeq(q, 3, Len(q)), o, 4)

JoinSelectOf(q, o) ==
  /\ Len(q) >= 4 /\ q[1] = "SELECT " /\ q[3] = " FROM " /\ q[4] = TableName
  /\ JoinsOf(q, 5, o, 4)

JoinCountOf(q, o) ==
  /\ Len(q) >= 2 /\ SubSeq(q, 1, 2) = <<"SELECT COUNT(*) FROM ", TableName>>
  /\ JoinsOf(q, 3, o, 1)

\* C11: every SELECT the operations send has its clauses in one order: the
\* base table, a fragment per join in the caller's order (joins variant),
\* WHERE, ORDER BY, LIMIT, OFFSET, each optional clause there exactly when its
\* option is set; the COUNT of the joins variant has the same joins and WHERE
\* and never ORDER BY, LIMIT or OFFSET.
C11_ClauseOrder ==
  /\ Done("FindAll") => PlainSelectOf(stmts[1].q, Given)
  /\ op = "FindAllAndCount" /\ Len(stmts) = 2 => PlainSelectOf(stmts[2].q, Given)
  /\ Done("FindAllWithJoins") => JoinSelectOf(stmts[1].q, GivenJoins)
  /\ op = "FindAllAndCountWithJoins" =>
       /\ JoinCountOf(stmts[1].q, GivenJoins)
       /\ Len(stmts) = 2 => JoinSelectOf(stmts[2].q, GivenJoins)

C11_Witness ==
  /\ Done("FindAllAndCountWithJoins") /\ Succeeded /\ Len(stmts) = 2
  /\ Len(GivenJoins.Joins) = 2 /\ GivenJoins.Where # "" /\ GivenJoins.OrderBy # ""
  /\ GivenJoins.Limit > 0 /\ GivenJoins.Offset > 0
  /\ Len(stmts[2].q) = 24 /\ Len(stmts[1].q) = 16

\* ---- C12

\* FindByPK was called with the identity the InsertOne before it returned,
\* and the store answered and the row scanned.
FoundInserted == Done("FindByPK") /\ payloads # <<>> /\ QueryRan

\* C12: InsertOne sends, as parallel sequences of one length, the column, a
\* '?' and the value of every exported field with a db tag other than '-'
\* whose column is not id or createdAt, in declaration order, and of no other
\* field; FindByPK with the identity InsertOne returned then yields a record
\* with that identity whose other fields, but createdAt, equal the payload's.
C12_RoundTrip ==
  /\ Done("InsertOne") =>
       /\ InsertColumns(stmts[1].q) = <<"name", "qty", "note">>
       /\ InsertPlaceholders(stmts[1].q) = <<"?", "?", "?">>
       /\ stmts[1].args = <<payloads[1][2], payloads[1][3], payloads[1][4]>>
  /\ FoundInserted =>
       /\ Succeeded /\ Len(ret.data) = 1
       /\ ret.data[1].id = ret.n
       /\ ret.data[1].name = payloads[1][2]
       /\ ret.data[1].qty = payloads[1][3]
       /\ ret.data[1].note = payloads[1][4]

C12_Witness ==
  /\ FoundInserted /\ ret.n = 2
  /\ payloads[1][2] = "" /\ payloads[1][3] = 0 /\ payloads[1][4] = Ptr("")
  /\ ret.data[1].note = Ptr("") /\ ret.data[1].createdAt = Now

\* ---- C13

\* The operations that open a multi-row cursor.
CursorOps ==
  {"FindAll", "FindAllAndCount", "UpdateData", "DeleteData",
   "FindAllWithJoins", "FindAllAndCountWithJoins"}

\* The messages of the returns taken before a cursor is opened.
NoCursorErrors ==
  {"failed to count records", "failed to query records",
   "failed to query records with joins", "failed to update records",
   "failed to delete records"}

\* The operation returned after its db.Query had opened a cursor.
CursorOpened ==
  /\ pc = "done" /\ op \in CursorOps
  /\ (Succeeded \/ Head(ret.err) \notin NoCursorErrors)

\* C13: no operation returns with a cursor open: a cursor an operation has
\* opened is closed when it returns, on success, on a scan error and on an
\* iteration error; and none is open between two operations.
C13_CursorsClosed ==
  /\ pc \in {"done", "idle"} => cursor # "open"
  /\ CursorOpened => cursor = "closed"
  /\ hist.scan.kind # "ok" => cursor = "closed"

C13_Witness ==
  /\ Done("FindAllAndCountWithJoins") /\ CursorOpened
  /\ hist.scan.kind = "iter" /\ hist.scan.at = 1 /\ ~Succeeded
  /\ cursor = "closed"

\* ---- C14

\* A step of the operation failed: the store failed a statement, the begin
\* or the commit, or a row did not scan, or the iteration broke.
StepFailed == hist.fault \/ hist.scan.kind # "ok"

\* C14: every error an operation returns for a failed step carries the
\* operation's context in front of the step's own error, and comes with no
\* result data; and a failed step is never passed over: the operation
\* returns an error.  (sql.ErrNoRows from a find-one is no failed step.)
C14_ErrorsWrapped ==
  pc = "done" =>
    /\ ~Succeeded /\ ret.err # ErrNoRows => Len(ret.err) >= 2 /\ ret.data = <<>>
    /\ StepFailed => ~Succeeded

\* ---- C15

\* C15: the UPDATE statement UpdateData sends has a SET list of at least one
\* 'column = ?' assignment, whatever the payload, and binds the SET values
\* in clause order and then the WHERE arguments in order.
C15_SetNeverEmpty ==
  Done("UpdateData") =>
    /\ SetOK(SetTokens(stmts[1].q))
    /\ Len(SetColumns(SetTokens(stmts[1].q))) >= 1
    /\ stmts[1].args
         = SubSeq(stmts[1].args, 1, Len(SetColumns(SetTokens(stmts[1].q))))
           \o (IF Given.Where = "" THEN <<>> ELSE Given.WhereArgs)

\* ---- C16

ExecuteOps == {"Execute", "ExecuteOne", "ExecuteWithCount"}

\* C16: executing a JoinBuilder leaves the query it describes as it was:
\* when Execute, ExecuteOne or ExecuteWithCount returns, GetQuery is the SQL
\* text and GetOptions().Limit the Limit of before the call.
C16_ExecuteKeepsQuery ==
  pc = "done" /\ op \in ExecuteOps =>
    /\ GetQuery(builder) = buildJoinQuery(GetTableName(builder), hist.options0)
    /\ Deref(GetOptions(builder)).Limit = Deref(hist.options0).Limit

====
